---- MODULE Spec2Model ----
(***************************************************************************)
(* The deployment-manifest generator of prefect/prefect_create_deployment  *)
(* (a notebook): os.walk over local_root, and for every directory named    *)
(* 'src' one call of create_deployment_yaml per entry ending in '.py'.     *)
(*                                                                         *)
(* A Python str is a sequence of one-character strings, so that endswith,  *)
(* split, replace and basename are computed on characters.  A filesystem   *)
(* path is a sequence of names (from the filesystem's root); the strings   *)
(* the program builds are resolved to paths by Resolve.  The content of a  *)
(* file is the sequence of chunks written to it since it was last          *)
(* truncated.                                                              *)
(***************************************************************************)
EXTENDS Integers, Sequences, FiniteSets, TLC

VARIABLES
    local_root,     \* the scanned root, as a path            (cell 2, line 24)
    src_root,       \* the remote root, as a path             (cell 2, line 23)
    output_folder,  \* the output directory, as a path        (cell 2, line 26)
    sep,            \* os.sep of the platform the notebook runs on
    rank,           \* the order in which the filesystem lists names
    dirs,           \* filesystem: the directories
    files,          \* filesystem: file path -> content
    pc,             \* where the notebook is
    stack,          \* os.walk: the directories still to visit (strings)
    root,           \* os.walk: the directory last yielded (a string)
    pending,        \* the entries (d, file) of root's 'src' directories still to look at
    args,           \* the arguments of the running create_deployment_yaml
    runs,           \* history: the number of runs started
    trace,          \* history: the calls of create_deployment_yaml of this run
    written,        \* history: the paths this run has written
    snap,           \* history: the filesystem when the previous run completed
    cut,            \* history: where the last interrupted run was interrupted
    dirs0,          \* history: the directories before the first run
    files0          \* history: the files before the first run

conf == <<local_root, src_root, output_folder, sep, rank>>
walk == <<stack, root, pending, args>>
hist == <<dirs0, files0>>
ghost == <<runs, trace, written, snap, cut>>
vars == <<local_root, src_root, output_folder, sep, rank, dirs, files, pc,
          stack, root, pending, args, runs, trace, written, snap, cut, dirs0, files0>>

(***************************************************************************)
(* Bounds of the model.                                                    *)
(***************************************************************************)
MaxEntries == 2     \* entries of the scanned tree
MaxRuns == 2        \* runs of the notebook, complete or interrupted

(***************************************************************************)
(* Names.                                                                  *)
(***************************************************************************)
SRC == <<"s", "r", "c">>
PY == <<".", "p", "y">>
DEPLOY_YAML == <<"-", "d", "e", "p", "l", "o", "y", ".", "y", "a", "m", "l">>
N_p == <<"p">>
N_r == <<"r">>
N_w == <<"w">>
N_q == <<"q">>
N_e == <<"e">>
N_j == <<"j">>
N_lib == <<"l", "i", "b">>
F_a == <<"a", ".", "p", "y">>
F_b == <<"b", ".", "p", "y">>
F_ab == <<"a", ".", "b", ".", "p", "y">>
F_c == <<"c", ".", "p", "y">>
F_d == <<"d", ".", "p", "y">>
F_txt == <<"c", ".", "t", "x", "t">>
F_stale == <<"a">> \o DEPLOY_YAML

(***************************************************************************)
(* Python's str and os.path operations.                                    *)
(***************************************************************************)
\* The characters the platform takes as path separators.
Seps == IF sep = "\\" THEN {"/", "\\"} ELSE {"/"}

\* The string of a path written with forward slashes, as the constants are.
RECURSIVE PathStr(_)
PathStr(p) == IF p = <<>> THEN <<>> ELSE <<"/">> \o Head(p) \o PathStr(Tail(p))

\* The path a string names: its non-empty components.
RECURSIVE Components(_, _)
Components(s, cur) ==
    IF s = <<>> THEN (IF cur = <<>> THEN <<>> ELSE <<cur>>)
    ELSE IF Head(s) \in Seps
         THEN (IF cur = <<>> THEN <<>> ELSE <<cur>>) \o Components(Tail(s), <<>>)
         ELSE Components(Tail(s), Append(cur, Head(s)))

Resolve(s) == Components(s, <<>>)

\* str.endswith
EndsWith(s, suf) ==
    Len(s) >= Len(suf) /\ SubSeq(s, Len(s) - Len(suf) + 1, Len(s)) = suf

\* str.split(ch)[0]
RECURSIVE SplitFirst(_, _)
SplitFirst(s, ch) ==
    IF s = <<>> \/ Head(s) = ch THEN <<>>
    ELSE <<Head(s)>> \o SplitFirst(Tail(s), ch)

\* str.replace(old, new): every non-overlapping occurrence, leftmost first.
RECURSIVE Replace(_, _, _)
Replace(s, old, new) ==
    IF Len(s) < Len(old) THEN s
    ELSE IF SubSeq(s, 1, Len(old)) = old
         THEN new \o Replace(SubSeq(s, Len(old) + 1, Len(s)), old, new)
         ELSE <<Head(s)>> \o Replace(Tail(s), old, new)

\* os.path.basename: what follows the last separator.
Basename(s) ==
    IF \E i \in 1..Len(s) : s[i] \in Seps
    THEN LET i == CHOOSE k \in 1..Len(s) :
                      s[k] \in Seps /\ \A j \in (k + 1)..Len(s) : s[j] \notin Seps
         IN  SubSeq(s, i + 1, Len(s))
    ELSE s

(***************************************************************************)
(* The filesystem.                                                         *)
(***************************************************************************)
Prefixes(p) == {SubSeq(p, 1, n) : n \in 0..Len(p)}

Parent(p) == SubSeq(p, 1, Len(p) - 1)

Last(p) == p[Len(p)]

\* The names directly inside directory d.
Entries(D, F, d) ==
    {Last(p) : p \in {x \in D \cup DOMAIN F : Len(x) = Len(d) + 1 /\ Parent(x) = d}}

\* The position of a name in the filesystem's listing order.
RankOf(n) ==
    IF \E i \in 1..Len(rank) : rank[i] = n
    THEN CHOOSE i \in 1..Len(rank) : rank[i] = n
    ELSE Len(rank) + 1

\* A set of names as the filesystem lists it.
RECURSIVE Listed(_)
Listed(S) ==
    IF S = {} THEN <<>>
    ELSE LET n == CHOOSE x \in S : \A y \in S : RankOf(x) <= RankOf(y)
         IN  <<n>> \o Listed(S \ {n})

\* os.listdir(s) on the filesystem (D, F)
ListDir(D, F, s) == Listed(Entries(D, F, Resolve(s)))

\* The directory names os.scandir(s) gives os.walk on the filesystem (D, F).
SubDirs(D, F, s) ==
    Listed({n \in Entries(D, F, Resolve(s)) : Resolve(s) \o <<n>> \in D})

(***************************************************************************)
(* create_deployment_yaml and the arguments the loop calls it with.        *)
(***************************************************************************)
LocalRootStr == PathStr(local_root)
SrcRootStr == PathStr(src_root)
OutputFolderStr == PathStr(output_folder)

\* The comparison of line 108 left out: every directory is listed.
IsAnyDirectory(d) == TRUE

\* line 108: d == 'src'
IsContainer(d) == d = SRC

\* line 111: file.split(".")[0]
Deployment(file) == SplitFirst(file, ".")

\* The base name taken of the container instead of the directory holding it.
ProjectNameOfContainer(r) == Basename(r \o <<"/">> \o SRC)

\* line 114: os.path.basename(root)
ProjectName(r) == Basename(r)

\* .replace("\\", "/").replace(local_root, src_root) of lines 115 and 118
Remote(s) == Replace(Replace(s, <<"\\">>, <<"/">>), LocalRootStr, SrcRootStr)

\* line 115: f"{root}/{d}"
ProjectDir(r, d) == Remote(r \o <<"/">> \o d)

\* lines 117-118: f"{root}/{d}/{deployment}.py:{deployment}"
Entrypoint(r, d, deployment) ==
    Remote(r \o <<"/">> \o d \o <<"/">> \o deployment \o PY \o <<":">> \o deployment)

\* lines 113-123: the call's arguments for entry file of directory r/d
CallArgs(r, d, file) ==
    [project_name |-> ProjectName(r),
     project_dir |-> ProjectDir(r, d),
     deployment_name |-> Deployment(file),
     entrypoint |-> Entrypoint(r, d, Deployment(file)),
     worker_pool |-> "default-worker-pool",
     schedule_interval |-> "3600.0",
     schedule_timezone |-> "UTC",
     schedule_active |-> "true"]

NoArgs == [project_name |-> <<>>, project_dir |-> <<>>, deployment_name |-> <<>>,
           entrypoint |-> <<>>, worker_pool |-> "", schedule_interval |-> "",
           schedule_timezone |-> "", schedule_active |-> ""]

\* lines 47-87: the template, as the values it substitutes into its fixed text
YamlBody(a) ==
    [kind |-> "yaml",
     name |-> a.project_name,
     prefect_version |-> "3.0.1",
     directory |-> SrcRootStr,
     deployment |-> a.deployment_name,
     entrypoint |-> a.entrypoint,
     work_pool |-> a.worker_pool,
     interval |-> a.schedule_interval,
     anchor_date |-> "2024-01-01T01:00:00+00:00",
     timezone |-> a.schedule_timezone,
     active |-> a.schedule_active]

\* The output file given the source unit's extension.
OutputFileAsModule(deployment) ==
    Resolve(OutputFolderStr \o <<"/">> \o deployment \o PY)

\* line 95: f"{output_folder}/{deployment_name}-deploy.yaml"
OutputFile(deployment) ==
    Resolve(OutputFolderStr \o <<"/">> \o deployment \o DEPLOY_YAML)

\* A unit whose output file exists is passed over (a resuming generator).
IsUnwrittenSourceUnit(file) ==
    EndsWith(file, PY) /\ OutputFile(SplitFirst(file, ".")) \notin DOMAIN files

\* line 110: file.endswith(".py")
IsSourceUnit(file) == EndsWith(file, PY)

\* line 90: mkdir(parents=True, exist_ok=True) raises when a file is in the way
MkdirBlocked(F) == \E p \in Prefixes(output_folder) : p \in DOMAIN F

\* The file opened with mode "a": what it holds is kept.
OpenedForAppend(F, p) == [x \in DOMAIN F \cup {p} |-> IF x \in DOMAIN F THEN F[x] ELSE <<>>]

\* line 95: open(path, "w") creates the file or truncates it
Opened(F, p) == [x \in DOMAIN F \cup {p} |-> IF x = p THEN <<>> ELSE F[x]]

\* line 96: f.write(yaml_body)
Appended(F, p, chunk) == [F EXCEPT ![p] = Append(F[p], chunk)]

(***************************************************************************)
(* The trees the notebook is run on.                                       *)
(***************************************************************************)
File(d, n) == [dir |-> d, name |-> n, kind |-> "file"]
Dir(d, n) == [dir |-> d, name |-> n, kind |-> "dir"]

\* Entries a tree may hold, relative to local_root.
Candidates ==
    {File(<<N_p, SRC>>, F_a), File(<<N_p, SRC>>, F_b), File(<<N_p, SRC>>, F_ab),
     File(<<N_r, SRC>>, F_a), File(<<SRC>>, F_b), File(<<SRC, SRC>>, F_a),
     File(<<N_p, SRC, N_lib>>, F_c), File(<<N_p, SRC>>, F_txt),
     Dir(<<N_p, SRC>>, F_d), File(<<N_p>>, SRC), File(<<>>, F_a)}

Trees == {T \in SUBSET Candidates : Cardinality(T) <= MaxEntries}

\* Where the notebook runs: a POSIX machine scanning /r, or a Windows machine
\* scanning a root that is itself named 'src', as the notebook's is.
Environments ==
    {[local_root |-> <<N_r>>, src_root |-> <<N_q>>, sep |-> "/"],
     [local_root |-> <<N_w, SRC>>, src_root |-> <<N_q, SRC>>, sep |-> "\\"]}
\* The output directory, and whether it is there with a file of an earlier run:
\* outside the scanned tree (absent, or there), or a 'src' directory inside it.
OutputSetups(R) ==
    {[folder |-> <<N_e, N_j>>, stale |-> FALSE],
     [folder |-> <<N_e, N_j>>, stale |-> TRUE],
     [folder |-> R \o <<N_p, SRC>>, stale |-> FALSE]}

Forward == <<N_p, N_r, SRC, N_lib, F_a, F_ab, F_b, F_c, F_d, F_txt>>
Reverse(s) == [i \in 1..Len(s) |-> s[Len(s) + 1 - i]]
ListingOrders == {Forward, Reverse(Forward)}

SourceChunk == [kind |-> "source"]
StaleChunk == [kind |-> "stale"]

TreeDirs(R, T) ==
    Prefixes(R)
    \cup UNION {Prefixes(R \o e.dir) : e \in T}
    \cup {R \o e.dir \o <<e.name>> : e \in {x \in T : x.kind = "dir"}}

TreeFiles(R, T) ==
    LET P == {R \o e.dir \o <<e.name>> : e \in {x \in T : x.kind = "file"}}
    IN  [p \in P |-> <<SourceChunk>>]

\* The filesystem holds no name that is both a file and a directory.
Consistent(D, F) == D \cap DOMAIN F = {}

NoSnap == <<>>

Init ==
    \E T \in Trees, env \in Environments, k \in ListingOrders :
      \E out \in OutputSetups(env.local_root) :
        LET R == env.local_root
            O == out.folder
            D == TreeDirs(R, T) \cup (IF out.stale THEN Prefixes(O) ELSE {})
            F0 == TreeFiles(R, T)
            F == IF out.stale
                 THEN [p \in DOMAIN F0 \cup {O \o <<F_stale>>} |->
                         IF p \in DOMAIN F0 THEN F0[p] ELSE <<StaleChunk>>]
                 ELSE F0
        IN  /\ Consistent(D, F)
            /\ local_root = R /\ src_root = env.src_root /\ output_folder = O
            /\ sep = env.sep /\ rank = k
            /\ dirs = D /\ files = F
            /\ dirs0 = D /\ files0 = F
            /\ pc = "idle"
            /\ stack = <<>> /\ root = <<>> /\ pending = <<>> /\ args = NoArgs
            /\ runs = 0 /\ trace = <<>> /\ written = {} /\ snap = NoSnap
            /\ cut = "none"

(***************************************************************************)
(* The notebook, step by step.                                             *)
(***************************************************************************)
\* The cells are run: os.walk(local_root) starts (line 106).
StartRun ==
    /\ pc \in {"idle", "done", "error"}
    /\ runs < MaxRuns
    /\ runs' = runs + 1
    /\ snap' = IF pc = "done" THEN <<[d |-> dirs, f |-> files]>> ELSE NoSnap
    /\ stack' = <<LocalRootStr>>
    /\ root' = <<>> /\ pending' = <<>> /\ args' = NoArgs
    /\ trace' = <<>> /\ written' = {}
    /\ pc' = "walk"
    /\ UNCHANGED <<conf, dirs, files, cut, hist>>

\* lines 107-109: the entries of the directories of top that the loop over
\* dirs takes as containers, each with the directory it was listed in
RECURSIVE ContainerEntries(_, _, _, _)
ContainerEntries(D, F, top, ds) ==
    IF ds = <<>> THEN <<>>
    ELSE LET d == Head(ds)
             listed == ListDir(D, F, top \o <<"/">> \o d)
             here == IF IsContainer(d)
                     THEN [i \in 1..Len(listed) |-> [d |-> d, file |-> listed[i]]]
                     ELSE <<>>
         IN  here \o ContainerEntries(D, F, top, Tail(ds))

\* line 106: os.walk joins top and each of its directories with os.sep
Children(top, ds) == [i \in 1..Len(ds) |-> top \o <<sep>> \o ds[i]]

\* line 106: os.walk scans the next directory and yields it; lines 107-109: the
\* loop over dirs lists every directory of it that is named 'src'.
WalkNext ==
    /\ pc = "walk" /\ pending = <<>> /\ stack # <<>>
    /\ LET top == Head(stack)
           ds == SubDirs(dirs, files, top)
       IN  /\ root' = top
           /\ stack' = Children(top, ds) \o Tail(stack)
           /\ pending' = ContainerEntries(dirs, files, top, ds)
    /\ UNCHANGED <<conf, dirs, files, pc, args, ghost, hist>>

\* line 106: os.walk is exhausted and the cell ends.
WalkDone ==
    /\ pc = "walk" /\ pending = <<>> /\ stack = <<>>
    /\ pc' = "done"
    /\ UNCHANGED <<conf, dirs, files, walk, ghost, hist>>

\* line 110: an entry that does not end in ".py" is passed over.
SkipFile ==
    /\ pc = "walk" /\ pending # <<>>
    /\ ~IsSourceUnit(Head(pending).file)
    /\ pending' = Tail(pending)
    /\ UNCHANGED <<conf, dirs, files, pc, stack, root, args, ghost, hist>>

\* lines 110-123: create_deployment_yaml is called for the entry.
CallCreate ==
    /\ pc = "walk" /\ pending # <<>>
    /\ IsSourceUnit(Head(pending).file)
    /\ LET e == Head(pending)
           a == CallArgs(root, e.d, e.file)
       IN  /\ args' = a
           /\ trace' = Append(trace, [root |-> Resolve(root), d |-> e.d,
                                      file |-> e.file, args |-> a])
    /\ pending' = Tail(pending)
    /\ pc' = "mkdir"
    /\ UNCHANGED <<conf, dirs, files, stack, root, runs, written, snap, cut, hist>>

\* line 90: the output directory and its missing ancestors are created.
Mkdir ==
    /\ pc = "mkdir" /\ ~MkdirBlocked(files)
    /\ dirs' = dirs \cup Prefixes(output_folder)
    /\ pc' = "open"
    /\ UNCHANGED <<conf, files, walk, ghost, hist>>

\* line 90: mkdir raises and the exception ends the run.
MkdirRaises ==
    /\ pc = "mkdir" /\ MkdirBlocked(files)
    /\ pc' = "error"
    /\ UNCHANGED <<conf, dirs, files, walk, ghost, hist>>

\* line 95: the output file is opened for writing.
Open ==
    /\ pc = "open"
    /\ files' = Opened(files, OutputFile(args.deployment_name))
    /\ pc' = "write"
    /\ UNCHANGED <<conf, dirs, walk, ghost, hist>>

\* line 96: the body is written and the file closed.
Write ==
    /\ pc = "write"
    /\ files' = Appended(files, OutputFile(args.deployment_name), YamlBody(args))
    /\ written' = written \cup {OutputFile(args.deployment_name)}
    /\ pc' = "walk"
    /\ UNCHANGED <<conf, dirs, walk, runs, trace, snap, cut, hist>>

\* The kernel is interrupted: what the run held in memory is lost.
Interrupt ==
    /\ pc \in {"walk", "mkdir", "open", "write"}
    /\ cut' = pc
    /\ pc' = "idle"
    /\ stack' = <<>> /\ root' = <<>> /\ pending' = <<>> /\ args' = NoArgs
    /\ trace' = <<>> /\ written' = {} /\ snap' = NoSnap
    /\ UNCHANGED <<conf, dirs, files, runs, hist>>

Next ==
    \/ StartRun
    \/ WalkNext
    \/ WalkDone
    \/ SkipFile
    \/ CallCreate
    \/ Mkdir
    \/ MkdirRaises
    \/ Open
    \/ Write
    \/ Interrupt

Spec == Init /\ [][Next]_vars

(***************************************************************************)
(* A run from start to end in one piece: what an uninterrupted run leaves. *)
(***************************************************************************)
\* lines 110-123 for the entries es of the containers of top
RECURSIVE CreateAll(_, _, _, _)
CreateAll(D, F, top, es) ==
    IF es = <<>> THEN [d |-> D, f |-> F, ok |-> TRUE]
    ELSE IF ~IsSourceUnit(Head(es).file) THEN CreateAll(D, F, top, Tail(es))
    ELSE IF MkdirBlocked(F) THEN [d |-> D, f |-> F, ok |-> FALSE]
    ELSE LET a == CallArgs(top, Head(es).d, Head(es).file)
             o == OutputFile(a.deployment_name)
         IN  CreateAll(D \cup Prefixes(output_folder),
                       Appended(Opened(F, o), o, YamlBody(a)), top, Tail(es))

\* lines 106-123 from the stack stk of os.walk on
RECURSIVE RunFrom(_, _, _)
RunFrom(D, F, stk) ==
    IF stk = <<>> THEN [d |-> D, f |-> F, ok |-> TRUE]
    ELSE LET top == Head(stk)
             ds == SubDirs(D, F, top)
             after == CreateAll(D, F, top, ContainerEntries(D, F, top, ds))
         IN  IF after.ok
             THEN RunFrom(after.d, after.f, Children(top, ds) \o Tail(stk))
             ELSE after

UninterruptedRun == RunFrom(dirs0, files0, <<LocalRootStr>>)

(***************************************************************************)
(* What the claims speak of.                                               *)
(***************************************************************************)
\* p lies below the scanned root.
Below(p) == Len(p) > Len(local_root) /\ SubSeq(p, 1, Len(local_root)) = local_root

\* The directories named 'src' below the root.
SrcDirs(D) == {d \in D : Below(d) /\ Last(d) = SRC}

HasPyExtension(n) ==
    Len(n) >= 3 /\ n[Len(n) - 2] = "." /\ n[Len(n) - 1] = "p" /\ n[Len(n)] = "y"

\* A name with its extension stripped.
Stem(n) == SubSeq(n, 1, Len(n) - 3)

\* The entries directly inside a 'src' directory whose names end in '.py'.
UnitEntries(D, F) ==
    {p \in D \cup DOMAIN F : Len(p) >= 1 /\ Parent(p) \in SrcDirs(D) /\ HasPyExtension(Last(p))}

\* Those of them that are files.
UnitFiles(D, F) == UnitEntries(D, F) \cap DOMAIN F

OutputOf(n) == output_folder \o <<n \o DEPLOY_YAML>>

IsOutputPath(p) ==
    /\ Len(p) = Len(output_folder) + 1 /\ Parent(p) = output_folder
    /\ Len(Last(p)) >= Len(DEPLOY_YAML)
    /\ SubSeq(Last(p), Len(Last(p)) - Len(DEPLOY_YAML) + 1, Len(Last(p))) = DEPLOY_YAML

OutputDirectory(F) ==
    [p \in {x \in DOMAIN F : Len(x) >= 1 /\ Parent(x) = output_folder} |-> F[p]]

CallPath(t) == t.root \o <<t.d, t.file>>

\* The last call of this run with the deployment name of call i.
LastCallFor(i) ==
    CHOOSE j \in 1..Len(trace) :
        /\ trace[j].args.deployment_name = trace[i].args.deployment_name
        /\ \A k \in (j + 1)..Len(trace) :
              trace[k].args.deployment_name # trace[i].args.deployment_name

(***************************************************************************)
(* The claims.                                                             *)
(***************************************************************************)
\* C1: after a complete run every source-unit file (a file ending in '.py' directly
\* inside a directory named 'src' below the root) has its output file
\* '<base_name>-deploy.yaml', base_name being its name with the extension stripped,
\* and the run has produced as many output files as there are source units.
C1_OneOutputPerSourceUnit ==
    pc = "done" =>
        /\ \A u \in UnitFiles(dirs0, files0) : OutputOf(Stem(Last(u))) \in written
        /\ Cardinality(written) = Cardinality(UnitFiles(dirs0, files0))

\* C2: the entry point of every call is the remote root, then the unit's path
\* below the local root unchanged, then ':' and the deployment name, which is the
\* name of the file without its extension.
C2_EntrypointSubstitutesRootPrefix ==
    \A i \in 1..Len(trace) :
        LET t == trace[i]
            rest == SubSeq(CallPath(t), Len(local_root) + 1, Len(CallPath(t)))
        IN  /\ t.args.deployment_name = Stem(t.file)
            /\ t.args.entrypoint = PathStr(src_root \o rest) \o <<":">> \o Stem(t.file)

\* C3 as written: the project name in the file a unit's call has just written is the
\* name of the directory two levels above the matched 'src' directory.
C3_ProjectIsTwoLevelsAboveSrc ==
    (pc \in {"walk", "done"} /\ trace # <<>>) =>
        LET t == trace[Len(trace)]
            o == OutputOf(t.args.deployment_name)
            above == Parent(t.root)
        IN  /\ o \in DOMAIN files /\ files[o] # <<>>
            /\ files[o][Len(files[o])].name = (IF above = <<>> THEN <<>> ELSE Last(above))

\* C3 as amended: the project name in the file a unit's call has just written is the
\* name of the directory that holds the matched 'src' directory.
C3_ProjectIsDirectoryHoldingSrc ==
    (pc \in {"walk", "done"} /\ trace # <<>>) =>
        LET t == trace[Len(trace)]
            o == OutputOf(t.args.deployment_name)
        IN  /\ o \in DOMAIN files /\ files[o] # <<>>
            /\ files[o][Len(files[o])].name = Last(t.root)

\* Witness of C3: a unit of p/src has just been written, p lying directly below the root.
C3_Witness ==
    /\ pc = "walk" /\ trace # <<>>
    /\ trace[Len(trace)].root = local_root \o <<N_p>>
    /\ trace[Len(trace)].d = SRC
    /\ OutputOf(trace[Len(trace)].args.deployment_name) \in written

\* C4: when the tree holds no directory named 'src', a complete run produces no
\* output file and the output directory exists afterwards.
C4_NoSrcStillCreatesOutputDirectory ==
    (pc = "done" /\ SrcDirs(dirs0) = {}) =>
        /\ written = {}
        /\ output_folder \in dirs

\* C5: a complete run that follows a complete run leaves the output directory with
\* the same files and the same contents as the first left it.
C5_SecondRunLeavesSameOutput ==
    (pc = "done" /\ snap # NoSnap) =>
        /\ OutputDirectory(files) = OutputDirectory(snap[1].f)
        /\ (output_folder \in dirs) = (output_folder \in snap[1].d)

\* Witness of C5: two complete runs in sequence, each writing over a unit's output twice.
C5_Witness ==
    /\ pc = "done" /\ snap # NoSnap
    /\ Len(trace) = 2 /\ Cardinality(written) = 1
    /\ trace[1].args # trace[2].args

\* C6: units that yield the same deployment name raise no error (the only error of
\* a run is mkdir's, when a file is in the way of the output directory); after a
\* complete run the output directory holds one file per distinct deployment name,
\* and each holds what the last call with that deployment name wrote.
C6_LastWriteWins ==
    /\ pc = "error" => MkdirBlocked(files)
    /\ pc = "done" =>
          /\ \A i \in 1..Len(trace) :
                LET o == OutputOf(trace[i].args.deployment_name)
                IN  /\ o \in written
                    /\ o \in DOMAIN files
                    /\ files[o] = <<YamlBody(trace[LastCallFor(i)].args)>>
          /\ Cardinality(written)
               = Cardinality({trace[i].args.deployment_name : i \in 1..Len(trace)})

\* Witness of C6: a complete run in which two units of different directories collided.
C6_Witness ==
    /\ pc = "done"
    /\ \E i, j \in 1..Len(trace) :
          /\ i < j
          /\ trace[i].args.deployment_name = trace[j].args.deployment_name
          /\ trace[i].root # trace[j].root
          /\ files[OutputOf(trace[j].args.deployment_name)][1].name
               = trace[j].args.project_name
          /\ trace[i].args.project_name # trace[j].args.project_name

\* C7: after a complete run any two distinct source-unit files of one directory
\* p/src have two output files '<base_name>-deploy.yaml', both with project name p,
\* and with distinct deployment names and entry points.
C7_UnitsOfOneDirectoryAreDistinct ==
    pc = "done" =>
        \A u1, u2 \in UnitFiles(dirs0, files0) :
            (u1 # u2 /\ Parent(u1) = Parent(u2)) =>
                LET o1 == OutputOf(Stem(Last(u1)))
                    o2 == OutputOf(Stem(Last(u2)))
                    p == Last(Parent(Parent(u1)))
                IN  /\ o1 \in written /\ o2 \in written /\ o1 # o2
                    /\ files[o1][1].name = p /\ files[o2][1].name = p
                    /\ files[o1][1].deployment # files[o2][1].deployment
                    /\ files[o1][1].entrypoint # files[o2][1].entrypoint

\* C8: in every state every directory and every file of before the first run is
\* still there, every source unit holds what it held, and what has changed is the
\* output directory (with the ancestors it lacked) and files named
\* '<deployment_name>-deploy.yaml' directly inside it.
C8_SourceTreeIsReadOnly ==
    /\ dirs0 \subseteq dirs
    /\ dirs \ dirs0 \subseteq Prefixes(output_folder)
    /\ DOMAIN files0 \subseteq DOMAIN files
    /\ \A p \in DOMAIN files0 : files[p] # files0[p] => IsOutputPath(p)
    /\ \A p \in DOMAIN files \ DOMAIN files0 : IsOutputPath(p)
    /\ written \subseteq DOMAIN files
    /\ \A u \in UnitEntries(dirs0, files0) :
          IF u \in dirs0 THEN u \in dirs ELSE files[u] = files0[u]

\* Witness of C8: the output directory is a 'src' directory of the scanned tree that holds a source
\* unit, and the run has written an output file beside it.
C8_Witness ==
    /\ pc = "done"
    /\ Below(output_folder)
    /\ \E u \in UnitFiles(dirs0, files0) :
          /\ Parent(u) = output_folder
          /\ OutputOf(Stem(Last(u))) \in written
          /\ OutputOf(Stem(Last(u))) \notin DOMAIN files0

\* C9: a complete run that follows an interrupted one has called
\* create_deployment_yaml for every unit, whether or not its output file was there,
\* and leaves for every unit the output file an uninterrupted run on the same tree
\* leaves.
C9_RunAfterInterruptRestoresOutput ==
    (pc = "done" /\ cut # "none") =>
        /\ \A u \in UnitEntries(dirs0, files0) :
              \E i \in 1..Len(trace) : CallPath(trace[i]) = u
        /\ \A i \in 1..Len(trace) :
              LET o == OutputOf(trace[i].args.deployment_name)
              IN  /\ o \in DOMAIN files
                  /\ o \in DOMAIN UninterruptedRun.f
                  /\ files[o] = UninterruptedRun.f[o]

\* Witness of C9: a run was interrupted between open and write, and the next run is complete.
C9_Witness ==
    /\ pc = "done" /\ cut = "write"
    /\ trace # <<>>
    /\ \A i \in 1..Len(trace) :
          files[OutputOf(trace[i].args.deployment_name)] # <<>>

\* C10: after a complete run the entries create_deployment_yaml was called for are
\* the entries ending in '.py' directly inside the directories named 'src' below the
\* root, each once.
C10_ContainersAreMatchedByName ==
    pc = "done" =>
        /\ {CallPath(trace[i]) : i \in 1..Len(trace)} = UnitEntries(dirs, files)
        /\ Len(trace) = Cardinality(UnitEntries(dirs, files))
        /\ \A i \in 1..Len(trace) : trace[i].d = SRC

\* Witness of C10: a complete run over a 'src' nested in a 'src', and over a tree holding a '.py'
\* file that is in no 'src' directory.
C10_Witness ==
    /\ pc = "done"
    /\ \E i \in 1..Len(trace) : Last(trace[i].root) = SRC /\ Below(trace[i].root)
    /\ \E f \in DOMAIN files :
          HasPyExtension(Last(f)) /\ f \notin UnitEntries(dirs, files)

====
